---- MODULE Spec2Model ----
(***************************************************************************)
(* Model of the instance_port_security resource of the EdgeCenter          *)
(* Terraform provider: the Create / Read / Update / Delete callbacks of    *)
(* src/edgecenter/data_source_edgecenter_storage_s3.go (lines 180-413)     *)
(* and the helpers of src/edgecenter/utils_port_security.go, run against   *)
(* a model of the cloud API's port (security flag + attached groups).      *)
(*                                                                         *)
(* Every callback is one atomic action.  Its inputs are the planned        *)
(* configuration and at most one fault: the client initialisation fails,   *)
(* the k-th external request fails, or the API accepts attach/detach but   *)
(* applies them only later (it is asynchronous).  Once a callback has      *)
(* returned, Return drops its diagnostics and request log: the next        *)
(* callback sees only the stored resource data and the port.               *)
(***************************************************************************)
EXTENDS Integers, Sequences, FiniteSets, TLC

\* ---------------------------------------------------------------- bounds
NumGroups == 2        \* security groups that exist in the cloud: 1..NumGroups
MaxCalls  == 10       \* the failing external call is one of the first MaxCalls

IDs == 1..NumGroups              \* IDs of the security groups
FailPoints == 0..MaxCalls        \* 0: no request fails

\* The faults one callback may meet.
Faults ==
    {[failAt |-> k, lag |-> FALSE, initOk |-> TRUE] : k \in FailPoints}
    \cup {[failAt |-> 0, lag |-> TRUE,  initOk |-> TRUE],
          [failAt |-> 0, lag |-> FALSE, initOk |-> FALSE]}

\* The attach/detach API addresses groups by name, not by ID.
NameOf(id) == 100 + id
IdOf(name) == name - 100
NamesOf(ids) == {NameOf(i) : i \in ids}
IdsOf(names) == {IdOf(n) : n \in names}

\* ----------------------------------------------------------------- state
VARIABLES
    port,     \* the cloud's port: [enabled, groups]
    pend,     \* attach/detach requests accepted but not yet applied: [add, rm]
    d,        \* the stored resource data: [id, disabled, enforce, sgs, all]
    op,       \* the callback that has just returned ("none": no callback
              \* record is held, the next callback may start)
    cfg,      \* the configuration that callback was given
    pre,      \* the port as it was when that callback started
    calls,    \* the external calls that callback issued, in order
    res,      \* what that callback returned
    plan,     \* the group IDs it handed to the detach / attach helpers
    chk,      \* verdict of checkPortSecurityChangesIsApplied in that callback
    repeat,   \* the callback repeated the configuration of a successful
              \* reconciliation that immediately preceded it
    last,     \* [ok, disabled]: the previous step was a reconciliation that
              \* returned success (with that port_security_disabled), and
              \* nothing has touched the port since
    failed,   \* the index in calls of the request that failed (0: none did)
    was,      \* the stored resource data as it was when the callback started
    ds        \* the data-source read that has just returned (NoDs: none)

portVars == <<port, pend, d, op, cfg, pre, calls, res, plan, chk, repeat,
              last, failed, was>>
vars == <<port, pend, d, op, cfg, pre, calls, res, plan, chk, repeat, last,
          failed, was, ds>>

Configs == [disabled : BOOLEAN, enforce : BOOLEAN, sgs : SUBSET IDs]
NoCfg   == [disabled |-> FALSE, enforce |-> FALSE, sgs |-> {}]
NoPlan  == [add |-> {}, rm |-> {}]
NoPend  == [add |-> {}, rm |-> {}]
NoDs    == [kind |-> "none", err |-> "none"]

\* schema defaults: port_security_disabled = false, enforce = false, no sets
FreshData == [id |-> FALSE, disabled |-> FALSE, enforce |-> FALSE,
              sgs |-> {}, all |-> {}]

\* ------------------------------------------------------ the external API
\* A run threads the port, the pending requests, the call log and the first
\* error through the calls of one callback.
NewRun(f) ==
    [port |-> port, pend |-> pend, calls |-> <<>>, err |-> "none",
     failAt |-> f.failAt, lag |-> f.lag]

\* A run without fault that starts from port p with nothing pending.
NoFault == [failAt |-> 0, lag |-> FALSE, initOk |-> TRUE]
RunFrom(p) ==
    [port |-> p, pend |-> NoPend, calls |-> <<>>, err |-> "none",
     failAt |-> 0, lag |-> FALSE]

\* One blocking request to the API; the failAt-th request of a run fails.
\* A failed ID -> name lookup (unknown or deleted group, or transport) is
\* the resolution error.
Request(r, name, arg) ==
    IF r.err # "none" THEN r
    ELSE [r EXCEPT !.calls = Append(@, [op |-> name, arg |-> arg]),
                   !.err = IF Len(r.calls) + 1 # r.failAt THEN "none"
                           ELSE IF name = "resolve" THEN "resolution"
                           ELSE "api"]

InstanceNetworkInterfaceByID(r) == Request(r, "getIface", {})
InstanceNetworkPortByID(r)      == Request(r, "getPort", {})

DisablePortSecurity(r) ==
    LET r1 == Request(r, "disable", {})
    IN IF r.err = "none" /\ r1.err = "none"
       THEN [r1 EXCEPT !.port.enabled = FALSE] ELSE r1

EnablePortSecurity(r) ==
    LET r1 == Request(r, "enable", {})
    IN IF r.err = "none" /\ r1.err = "none"
       THEN [r1 EXCEPT !.port.enabled = TRUE] ELSE r1

\* ID -> name resolution of a list of group IDs.
SecurityGroupListByIDs(r, ids) == Request(r, "resolve", ids)

SecurityGroupUnAssign(r, names) ==
    LET r1 == Request(r, "detach", names)
        ids == IdsOf(names)
    IN IF r.err # "none" \/ r1.err # "none" THEN r1
       ELSE IF r.lag
            THEN [r1 EXCEPT !.pend = [add |-> @.add \ ids, rm |-> @.rm \cup ids]]
            ELSE [r1 EXCEPT !.port.groups = @ \ ids]

SecurityGroupAssign(r, names) ==
    LET r1 == Request(r, "attach", names)
        ids == IdsOf(names)
    IN IF r.err # "none" \/ r1.err # "none" THEN r1
       ELSE IF r.lag
            THEN [r1 EXCEPT !.pend = [add |-> @.add \cup ids, rm |-> @.rm \ ids]]
            ELSE [r1 EXCEPT !.port.groups = @ \cup ids]

\* ------------------------------------------------------------- helpers
\* Resolve the IDs to names, then one detach call carrying all the names.
removeSecurityGroupsFromInstancePort(r, ids) ==
    SecurityGroupUnAssign(SecurityGroupListByIDs(r, ids), NamesOf(ids))

\* Resolve the IDs to names, then one attach call carrying all the names.
AssignSecurityGroupsToInstancePort(r, ids) ==
    SecurityGroupAssign(SecurityGroupListByIDs(r, ids), NamesOf(ids))

\* A validation that reads the flag the wrong way round.
validatePortSecAttrs_Inverted(c) ==
    LET isPortSecDisabled == ~c.disabled
        isSecGroupExists  == c.sgs # {}
    IN IF isPortSecDisabled /\ isSecGroupExists THEN <<"conflict">> ELSE <<>>

\* The diagnostics of the attribute validation (GetOk is false for an
\* unset bool and for an empty set).
validatePortSecAttrs(c) ==
    LET isPortSecDisabled == c.disabled
        isSecGroupExists  == c.sgs # {}
    IN IF isPortSecDisabled /\ isSecGroupExists THEN <<"conflict">> ELSE <<>>

HasError(diags) == diags # <<>>

\* A convergence check that compares the number of desired groups with the
\* number of groups on the port instead of with their intersection.
checkPortSecurityChangesIsApplied_CountsPort(r, c) ==
    LET r1 == InstanceNetworkPortByID(r)
        r2 == InstanceNetworkInterfaceByID(r1)
        sgsSet == c.sgs
        sgsSetFromAPI == r2.port.groups
        intersectionSet  == sgsSetFromAPI \cap sgsSet
        intersectionDiff == intersectionSet \ sgsSet
    IN IF r2.err # "none" THEN r2
       ELSE IF Cardinality(intersectionDiff) # 0
            THEN [r2 EXCEPT !.err = "notapplied"]
       ELSE IF c.enforce /\ Cardinality(sgsSet) # Cardinality(sgsSetFromAPI)
            THEN [r2 EXCEPT !.err = "notapplied"]
       ELSE IF r2.port.enabled = c.disabled
            THEN [r2 EXCEPT !.err = "notapplied"]
       ELSE r2

\* A convergence check that answers a failed re-fetch with the sentinel.
checkPortSecurityChangesIsApplied_SentinelOnError(r, c) ==
    LET r1 == InstanceNetworkPortByID(r)
        r2 == InstanceNetworkInterfaceByID(r1)
        sgsSet == c.sgs
        sgsSetFromAPI == r2.port.groups
        intersectionSet  == sgsSetFromAPI \cap sgsSet
        intersectionDiff == intersectionSet \ sgsSet
    IN IF r2.err # "none" THEN [r2 EXCEPT !.err = "notapplied"]
       ELSE IF Cardinality(intersectionDiff) # 0
            THEN [r2 EXCEPT !.err = "notapplied"]
       ELSE IF c.enforce /\ Cardinality(sgsSet) # Cardinality(intersectionSet)
            THEN [r2 EXCEPT !.err = "notapplied"]
       ELSE IF r2.port.enabled = c.disabled
            THEN [r2 EXCEPT !.err = "notapplied"]
       ELSE r2

\* A convergence check that fetches the port once more when it finds a
\* mismatch, before it gives up.
checkPortSecurityChangesIsApplied_Repolls(r, c) ==
    LET r1 == InstanceNetworkPortByID(r)
        r2 == InstanceNetworkInterfaceByID(r1)
        mismatch(q) ==
            \/ Cardinality((q.port.groups \cap c.sgs) \ c.sgs) # 0
            \/ c.enforce /\ Cardinality(c.sgs)
                              # Cardinality(q.port.groups \cap c.sgs)
            \/ q.port.enabled = c.disabled
        r3 == InstanceNetworkPortByID(r2)
        r4 == InstanceNetworkInterfaceByID(r3)
    IN IF r2.err # "none" THEN r2
       ELSE IF ~mismatch(r2) THEN r2
       ELSE IF r4.err # "none" THEN r4
       ELSE IF mismatch(r4) THEN [r4 EXCEPT !.err = "notapplied"]
       ELSE r4

\* The convergence check: "none" when it passes, else the error.
checkPortSecurityChangesIsApplied(r, c) ==
    LET r1 == InstanceNetworkPortByID(r)
        r2 == InstanceNetworkInterfaceByID(r1)
        sgsSet == c.sgs
        sgsSetFromAPI == r2.port.groups
        intersectionSet  == sgsSetFromAPI \cap sgsSet
        intersectionDiff == intersectionSet \ sgsSet
    IN IF r2.err # "none" THEN r2
       ELSE IF Cardinality(intersectionDiff) # 0
            THEN [r2 EXCEPT !.err = "notapplied"]
       ELSE IF c.enforce /\ Cardinality(sgsSet) # Cardinality(intersectionSet)
            THEN [r2 EXCEPT !.err = "notapplied"]
       ELSE IF r2.port.enabled = c.disabled
            THEN [r2 EXCEPT !.err = "notapplied"]
       ELSE r2

\* What a callback leaves behind: the run, the resource data, the plan and
\* the verdict of the convergence check.
Out(r, data, pl, ck) == [r |-> r, d |-> data, plan |-> pl, chk |-> ck]

\* resourceInstancePortSecurityRead on resource data rd.
resourceInstancePortSecurityRead(r, rd, pl, ck) ==
    LET r1 == InstanceNetworkInterfaceByID(r)
        r2 == InstanceNetworkPortByID(r1)
        rd1 == [rd EXCEPT !.disabled = ~r2.port.enabled]
        rd2 == IF r2.port.enabled
               THEN [rd1 EXCEPT !.all = r2.port.groups] ELSE rd1
    IN IF r2.err # "none" THEN Out(r2, rd, pl, ck) ELSE Out(r2, rd2, pl, ck)

\* ----------------------------------------------------------- callbacks
\* A Create that sets the resource ID before its attach and detach steps.
resourceInstancePortSecurityCreate_SetsIdEarly(c, r0, initOk, old) ==
    LET rd == [FreshData EXCEPT !.disabled = c.disabled,
                                !.enforce = c.enforce, !.sgs = c.sgs]
        withId == [rd EXCEPT !.id = TRUE]
        diags == validatePortSecAttrs(c)
        r1 == InstanceNetworkInterfaceByID(r0)
        portSecurityDisabled == c.disabled
        r2 == IF r1.err # "none" THEN r1
              ELSE IF portSecurityDisabled /\ r1.port.enabled
                   THEN DisablePortSecurity(r1)
              ELSE IF ~portSecurityDisabled /\ ~r1.port.enabled
                   THEN EnablePortSecurity(r1)
              ELSE r1
        enforce  == c.enforce
        sgsRawOk == c.sgs # {}
        r3 == IF enforce /\ sgsRawOk THEN InstanceNetworkPortByID(r2) ELSE r2
        sgsToRemove == IF enforce /\ sgsRawOk /\ r3.err = "none"
                       THEN r3.port.groups ELSE {}
        r4 == IF sgsToRemove # {}
              THEN removeSecurityGroupsFromInstancePort(r3, sgsToRemove)
              ELSE r3
        sgsList == IF sgsRawOk /\ r4.err = "none" THEN c.sgs ELSE {}
        r5 == IF sgsRawOk
              THEN AssignSecurityGroupsToInstancePort(r4, c.sgs)
              ELSE r4
        pl == [add |-> sgsList, rm |-> sgsToRemove]
    IN IF ~initOk THEN Out([r0 EXCEPT !.err = "init"], old, NoPlan, "none")
       ELSE IF HasError(diags)
            THEN Out([r0 EXCEPT !.err = "validation"], old, NoPlan, "none")
       ELSE IF r2.err # "none" THEN Out(r2, old, NoPlan, "none")
       ELSE IF portSecurityDisabled
            THEN resourceInstancePortSecurityRead(r2, withId, NoPlan, "none")
       ELSE IF r5.err # "none" THEN Out(r5, withId, pl, "none")
       ELSE resourceInstancePortSecurityRead(r5, withId, pl, "none")

\* resourceInstancePortSecurityCreate with planned configuration c; old is
\* the resource data left in the state when Create fails before SetId.
resourceInstancePortSecurityCreate(c, r0, initOk, old) ==
    LET rd == [FreshData EXCEPT !.disabled = c.disabled,
                                !.enforce = c.enforce, !.sgs = c.sgs]
        withId == [rd EXCEPT !.id = TRUE]
        diags == validatePortSecAttrs(c)
        r1 == InstanceNetworkInterfaceByID(r0)
        portSecurityDisabled == c.disabled
        r2 == IF r1.err # "none" THEN r1
              ELSE IF portSecurityDisabled /\ r1.port.enabled
                   THEN DisablePortSecurity(r1)
              ELSE IF ~portSecurityDisabled /\ ~r1.port.enabled
                   THEN EnablePortSecurity(r1)
              ELSE r1
        enforce  == c.enforce
        sgsRawOk == c.sgs # {}
        r3 == IF enforce /\ sgsRawOk THEN InstanceNetworkPortByID(r2) ELSE r2
        sgsToRemove == IF enforce /\ sgsRawOk /\ r3.err = "none"
                       THEN r3.port.groups ELSE {}
        r4 == IF sgsToRemove # {}
              THEN removeSecurityGroupsFromInstancePort(r3, sgsToRemove)
              ELSE r3
        sgsList == IF sgsRawOk /\ r4.err = "none" THEN c.sgs ELSE {}
        r5 == IF sgsRawOk
              THEN AssignSecurityGroupsToInstancePort(r4, c.sgs)
              ELSE r4
        pl == [add |-> sgsList, rm |-> sgsToRemove]
    IN IF ~initOk THEN Out([r0 EXCEPT !.err = "init"], old, NoPlan, "none")
       ELSE IF HasError(diags)
            THEN Out([r0 EXCEPT !.err = "validation"], old, NoPlan, "none")
       ELSE IF r2.err # "none" THEN Out(r2, old, NoPlan, "none")
       ELSE IF portSecurityDisabled
            THEN resourceInstancePortSecurityRead(r2, withId, NoPlan, "none")
       ELSE IF r5.err # "none" THEN Out(r5, old, pl, "none")
       ELSE resourceInstancePortSecurityRead(r5, withId, pl, "none")

\* An Update that drops the error of the detach helper and carries on.
resourceInstancePortSecurityUpdate_IgnoresDetachError(c, r0, initOk, old) ==
    LET rd == [old EXCEPT !.disabled = c.disabled,
                          !.enforce = c.enforce, !.sgs = c.sgs]
        HasChange(f) == old[f] # c[f]
        diags == validatePortSecAttrs(c)
        portSecurityDisabled == c.disabled
        r1 == IF HasChange("disabled")
              THEN InstanceNetworkInterfaceByID(r0) ELSE r0
        r2 == IF ~HasChange("disabled") \/ r1.err # "none" THEN r1
              ELSE IF portSecurityDisabled /\ r1.port.enabled
                   THEN DisablePortSecurity(r1)
              ELSE IF ~portSecurityDisabled /\ ~r1.port.enabled
                   THEN EnablePortSecurity(r1)
              ELSE r1
        changed == HasChange("sgs") \/ HasChange("enforce")
        enforce == c.enforce
        sgsOldSet == old.sgs
        sgsNewSet == c.sgs
        allSGIDs  == old.all
        sgsToRemoveList == IF enforce THEN allSGIDs \ sgsNewSet
                           ELSE sgsOldSet \ sgsNewSet
        r3e == IF changed
               THEN removeSecurityGroupsFromInstancePort(r2, sgsToRemoveList)
               ELSE r2
        r3 == [r3e EXCEPT !.err = "none"]
        sgsToAssignList == sgsNewSet \ sgsOldSet
        r4 == IF changed
              THEN AssignSecurityGroupsToInstancePort(r3, sgsToAssignList)
              ELSE r3
        pl == IF ~changed THEN NoPlan
              ELSE [rm  |-> sgsToRemoveList, add |-> sgsToAssignList]
        r5 == checkPortSecurityChangesIsApplied(r4, c)
        ck == IF r5.err = "none" THEN "ok" ELSE r5.err
    IN IF ~initOk THEN Out([r0 EXCEPT !.err = "init"], rd, NoPlan, "none")
       ELSE IF HasError(diags)
            THEN Out([r0 EXCEPT !.err = "validation"], rd, NoPlan, "none")
       ELSE IF r2.err # "none" THEN Out(r2, rd, NoPlan, "none")
       ELSE IF portSecurityDisabled
            THEN resourceInstancePortSecurityRead(r2, rd, NoPlan, "none")
       ELSE IF r4.err # "none" THEN Out(r4, rd, pl, "none")
       ELSE IF r5.err # "none" THEN Out(r5, rd, pl, ck)
       ELSE resourceInstancePortSecurityRead(r5, rd, pl, ck)

\* An Update that takes the groups to remove from the observed groups
\* whatever enforce says.
resourceInstancePortSecurityUpdate_RemovesObserved(c, r0, initOk, old) ==
    LET rd == [old EXCEPT !.disabled = c.disabled,
                          !.enforce = c.enforce, !.sgs = c.sgs]
        HasChange(f) == old[f] # c[f]
        diags == validatePortSecAttrs(c)
        portSecurityDisabled == c.disabled
        r1 == IF HasChange("disabled")
              THEN InstanceNetworkInterfaceByID(r0) ELSE r0
        r2 == IF ~HasChange("disabled") \/ r1.err # "none" THEN r1
              ELSE IF portSecurityDisabled /\ r1.port.enabled
                   THEN DisablePortSecurity(r1)
              ELSE IF ~portSecurityDisabled /\ ~r1.port.enabled
                   THEN EnablePortSecurity(r1)
              ELSE r1
        changed == HasChange("sgs") \/ HasChange("enforce")
        enforce == c.enforce
        sgsOldSet == old.sgs
        sgsNewSet == c.sgs
        allSGIDs  == old.all
        sgsToRemoveList == allSGIDs \ sgsNewSet
        r3 == IF changed
              THEN removeSecurityGroupsFromInstancePort(r2, sgsToRemoveList)
              ELSE r2
        sgsToAssignList == sgsNewSet \ sgsOldSet
        r4 == IF changed
              THEN AssignSecurityGroupsToInstancePort(r3, sgsToAssignList)
              ELSE r3
        pl == IF ~changed THEN NoPlan
              ELSE [rm  |-> sgsToRemoveList,
                    add |-> IF r3.err = "none" THEN sgsToAssignList ELSE {}]
        r5 == checkPortSecurityChangesIsApplied(r4, c)
        ck == IF r5.err = "none" THEN "ok" ELSE r5.err
    IN IF ~initOk THEN Out([r0 EXCEPT !.err = "init"], rd, NoPlan, "none")
       ELSE IF HasError(diags)
            THEN Out([r0 EXCEPT !.err = "validation"], rd, NoPlan, "none")
       ELSE IF r2.err # "none" THEN Out(r2, rd, NoPlan, "none")
       ELSE IF portSecurityDisabled
            THEN resourceInstancePortSecurityRead(r2, rd, NoPlan, "none")
       ELSE IF r4.err # "none" THEN Out(r4, rd, pl, "none")
       ELSE IF r5.err # "none" THEN Out(r5, rd, pl, ck)
       ELSE resourceInstancePortSecurityRead(r5, rd, pl, ck)

\* resourceInstancePortSecurityUpdate: old is the stored resource data, c
\* the planned configuration.  d.Get gives the planned value of the
\* configured attributes and the stored value of all_security_group_ids;
\* the planned values are kept in the state whatever Update returns.
resourceInstancePortSecurityUpdate(c, r0, initOk, old) ==
    LET rd == [old EXCEPT !.disabled = c.disabled,
                          !.enforce = c.enforce, !.sgs = c.sgs]
        HasChange(f) == old[f] # c[f]
        diags == validatePortSecAttrs(c)
        portSecurityDisabled == c.disabled
        r1 == IF HasChange("disabled")
              THEN InstanceNetworkInterfaceByID(r0) ELSE r0
        r2 == IF ~HasChange("disabled") \/ r1.err # "none" THEN r1
              ELSE IF portSecurityDisabled /\ r1.port.enabled
                   THEN DisablePortSecurity(r1)
              ELSE IF ~portSecurityDisabled /\ ~r1.port.enabled
                   THEN EnablePortSecurity(r1)
              ELSE r1
        changed == HasChange("sgs") \/ HasChange("enforce")
        enforce == c.enforce
        sgsOldSet == old.sgs
        sgsNewSet == c.sgs
        allSGIDs  == old.all
        sgsToRemoveList == IF enforce THEN allSGIDs \ sgsNewSet
                           ELSE sgsOldSet \ sgsNewSet
        r3 == IF changed
              THEN removeSecurityGroupsFromInstancePort(r2, sgsToRemoveList)
              ELSE r2
        sgsToAssignList == sgsNewSet \ sgsOldSet
        r4 == IF changed
              THEN AssignSecurityGroupsToInstancePort(r3, sgsToAssignList)
              ELSE r3
        pl == IF ~changed THEN NoPlan
              ELSE [rm  |-> sgsToRemoveList,
                    add |-> IF r3.err = "none" THEN sgsToAssignList ELSE {}]
        r5 == checkPortSecurityChangesIsApplied(r4, c)
        ck == IF r5.err = "none" THEN "ok" ELSE r5.err
    IN IF ~initOk THEN Out([r0 EXCEPT !.err = "init"], rd, NoPlan, "none")
       ELSE IF HasError(diags)
            THEN Out([r0 EXCEPT !.err = "validation"], rd, NoPlan, "none")
       ELSE IF r2.err # "none" THEN Out(r2, rd, NoPlan, "none")
       ELSE IF portSecurityDisabled
            THEN resourceInstancePortSecurityRead(r2, rd, NoPlan, "none")
       ELSE IF r4.err # "none" THEN Out(r4, rd, pl, "none")
       ELSE IF r5.err # "none" THEN Out(r5, rd, pl, ck)
       ELSE resourceInstancePortSecurityRead(r5, rd, pl, ck)

\* A Delete that goes on to the removal after it has enabled the port.
resourceInstancePortSecurityDelete_DetachesAfterEnable(r0, initOk, old) ==
    LET r1 == InstanceNetworkInterfaceByID(r0)
        r2 == IF r1.err = "none" /\ ~r1.port.enabled
              THEN EnablePortSecurity(r1) ELSE r1
        ok == old.sgs # {}
        sgsList == old.sgs
        r3 == removeSecurityGroupsFromInstancePort(r2, sgsList)
    IN IF ~initOk THEN Out([r0 EXCEPT !.err = "init"], old, NoPlan, "none")
       ELSE IF r1.err # "none" THEN Out(r1, old, NoPlan, "none")
       ELSE IF r2.err # "none" THEN Out(r2, old, NoPlan, "none")
       ELSE IF ~ok THEN Out(r2, FreshData, NoPlan, "none")
       ELSE Out(r3, IF r3.err = "none" THEN FreshData ELSE old,
                [add |-> {}, rm |-> sgsList], "none")

\* resourceInstancePortSecurityDelete on the stored resource data; the
\* resource leaves the state when Delete returns no error.
resourceInstancePortSecurityDelete(r0, initOk, old) ==
    LET r1 == InstanceNetworkInterfaceByID(r0)
        r2 == IF r1.err = "none" /\ ~r1.port.enabled
              THEN EnablePortSecurity(r1) ELSE r1
        ok == old.sgs # {}
        sgsList == old.sgs
        r3 == removeSecurityGroupsFromInstancePort(r1, sgsList)
    IN IF ~initOk THEN Out([r0 EXCEPT !.err = "init"], old, NoPlan, "none")
       ELSE IF r1.err # "none" THEN Out(r1, old, NoPlan, "none")
       ELSE IF ~r1.port.enabled
            THEN Out(r2, IF r2.err = "none" THEN FreshData ELSE old,
                     NoPlan, "none")
       ELSE IF ~ok THEN Out(r1, FreshData, NoPlan, "none")
       ELSE Out(r3, IF r3.err = "none" THEN FreshData ELSE old,
                [add |-> {}, rm |-> sgsList], "none")

\* --------------------------------------------------------------- actions
NoLast == [ok |-> FALSE, disabled |-> FALSE]

Init ==
    /\ port \in [enabled : BOOLEAN, groups : SUBSET IDs]
    /\ pend = NoPend
    /\ d = FreshData
    /\ op = "none"
    /\ cfg = NoCfg
    /\ pre = port
    /\ calls = <<>>
    /\ res = "none"
    /\ plan = NoPlan
    /\ chk = "none"
    /\ repeat = FALSE
    /\ last = NoLast
    /\ failed = 0
    /\ was = FreshData
    /\ ds = NoDs

\* A callback has returned: its effects and its record become the state.
Finish(name, c, o) ==
    /\ port' = o.r.port
    /\ pend' = o.r.pend
    /\ d' = o.d
    /\ op' = name
    /\ cfg' = c
    /\ pre' = port
    /\ calls' = o.r.calls
    /\ res' = IF o.r.err = "none" THEN "ok" ELSE o.r.err
    /\ plan' = o.plan
    /\ chk' = o.chk
    /\ repeat' = (last.ok /\ c.disabled = last.disabled
                  /\ c.enforce = d.enforce /\ c.sgs = d.sgs)
    /\ failed' = IF o.r.failAt \in 1..Len(o.r.calls) THEN o.r.failAt ELSE 0
    /\ was' = d
    /\ UNCHANGED <<last, ds>>

StoredCfg == [disabled |-> d.disabled, enforce |-> d.enforce, sgs |-> d.sgs]

\* Terraform applies a configuration to a port for which it creates new
\* resource data (a new resource, or the replacement of an existing one).
Create ==
    /\ op = "none" /\ pend = NoPend
    /\ \E c \in Configs, f \in Faults :
          Finish("Create", c,
                 resourceInstancePortSecurityCreate(c, NewRun(f), f.initOk, d))

\* Terraform applies a configuration that differs from the resource data
\* it has in its state.
Update ==
    /\ op = "none" /\ pend = NoPend
    /\ d.id
    /\ \E c \in Configs, f \in Faults :
          /\ c # StoredCfg       \* no callback is run for an empty diff
          /\ Finish("Update", c,
                    resourceInstancePortSecurityUpdate(c, NewRun(f), f.initOk, d))

\* Terraform refreshes the resource it has in its state.
Read ==
    /\ op = "none" /\ pend = NoPend
    /\ d.id
    /\ \E f \in Faults :
          Finish("Read", StoredCfg,
                 IF f.initOk
                 THEN resourceInstancePortSecurityRead(NewRun(f), d, NoPlan, "none")
                 ELSE Out([NewRun(f) EXCEPT !.err = "init"], d, NoPlan, "none"))

\* Terraform destroys the resource it has in its state.
Delete ==
    /\ op = "none" /\ pend = NoPend
    /\ d.id
    /\ \E f \in Faults :
          Finish("Delete", StoredCfg,
                 resourceInstancePortSecurityDelete(NewRun(f), f.initOk, d))

\* The callback's diagnostics and request log are dropped; what stays is
\* the stored resource data and whether a reconciliation just succeeded.
Return ==
    /\ op # "none"
    /\ last' = IF op \in {"Create", "Update"} /\ res = "ok" /\ pend = NoPend
               THEN [ok |-> TRUE, disabled |-> cfg.disabled] ELSE NoLast
    /\ op' = "none" /\ cfg' = NoCfg /\ pre' = port /\ calls' = <<>>
    /\ res' = "none" /\ plan' = NoPlan /\ chk' = "none" /\ repeat' = FALSE
    /\ failed' = 0 /\ was' = d
    /\ UNCHANGED <<port, pend, d, ds>>

\* Somebody else changes the port: toggles its security or attaches or
\* detaches one group.
External ==
    /\ op = "none" /\ pend = NoPend
    /\ \/ port' = [port EXCEPT !.enabled = ~@]
       \/ \E g \in IDs : g \notin port.groups
                         /\ port' = [port EXCEPT !.groups = @ \cup {g}]
       \/ \E g \in IDs : g \in port.groups
                         /\ port' = [port EXCEPT !.groups = @ \ {g}]
    /\ pre' = port'
    /\ last' = NoLast
    /\ UNCHANGED <<pend, d, op, cfg, calls, res, plan, chk, repeat, failed, was,
                   ds>>

\* The cloud applies the attach/detach requests it had accepted.
Settle ==
    /\ op = "none" /\ pend # NoPend
    /\ port' = [port EXCEPT !.groups = (@ \ pend.rm) \cup pend.add]
    /\ pend' = NoPend
    /\ pre' = port'
    /\ last' = NoLast
    /\ UNCHANGED <<d, op, cfg, calls, res, plan, chk, repeat, failed, was, ds>>

Next == Create \/ Update \/ Read \/ Delete \/ Return \/ External \/ Settle

Spec == Init /\ [][Next]_vars

TypeOK ==
    /\ port \in [enabled : BOOLEAN, groups : SUBSET IDs]
    /\ pend \in [add : SUBSET IDs, rm : SUBSET IDs]
    /\ d \in [id : BOOLEAN, disabled : BOOLEAN, enforce : BOOLEAN,
              sgs : SUBSET IDs, all : SUBSET IDs]
    /\ op \in {"none", "Create", "Update", "Read", "Delete"}
    /\ cfg \in Configs
    /\ res \in {"none", "ok", "init", "validation", "api", "resolution", "notapplied"}
    /\ chk \in {"none", "ok", "api", "notapplied"}
    /\ plan \in [add : SUBSET IDs, rm : SUBSET IDs]
    /\ Len(calls) <= MaxCalls
    /\ last \in [ok : BOOLEAN, disabled : BOOLEAN]
    /\ failed \in 0..Len(calls)
    /\ (failed # 0) = (res \in {"api", "resolution"})
    /\ was \in [id : BOOLEAN, disabled : BOOLEAN, enforce : BOOLEAN,
                sgs : SUBSET IDs, all : SUBSET IDs]

\* ---------------------------------------------------------------- claims
Reconciled == op \in {"Create", "Update"}

CallsOf(name) == {i \in 1..Len(calls) : calls[i].op = name}
Count(name)   == Cardinality(CallsOf(name))
\* the group IDs the callback asked the API to detach / attach
DetachReq == UNION {IdsOf(calls[i].arg) : i \in CallsOf("detach")}
AttachReq == UNION {IdsOf(calls[i].arg) : i \in CallsOf("attach")}
\* the API has applied every request it accepted
Applied == pend = NoPend

\* C1: whenever a reconciliation with enforce=true and disabled=false
\* returns success (and the API has applied what it accepted), the groups
\* attached to the port are exactly the desired groups.
C1_EnforceExact ==
    (Reconciled /\ res = "ok" /\ cfg.enforce /\ ~cfg.disabled /\ Applied)
        => port.groups = cfg.sgs

\* C2: a reconciliation with enforce=false and disabled=false requests no
\* removal (the plan's toRemove is empty, no group is named in a detach
\* call), and after a successful apply the port has every group it had
\* before and every desired group.
C2_NoRemoval ==
    (Reconciled /\ ~cfg.enforce /\ ~cfg.disabled)
        => /\ plan.rm = {}
           /\ DetachReq = {}
           /\ (res = "ok" /\ Applied)
                 => (pre.groups \cup cfg.sgs) \subseteq port.groups

\* C3: with disabled=true and a non-empty group ID set, Create and Update
\* (once the client is initialised) return the validation error, having
\* issued no external call and changed nothing on the port.
C3_ValidationFirst ==
    (Reconciled /\ cfg.disabled /\ cfg.sgs # {} /\ res # "init")
        => /\ res = "validation"
           /\ calls = <<>>
           /\ port = pre
           /\ Applied

C3_Witness ==
    /\ op = "Update" /\ cfg.disabled /\ cfg.sgs # {} /\ res = "validation"
    /\ pre.enabled /\ pre.groups # {}

\* C4: when the reconciliation returns the resolution error, no group has
\* been named in an attach call or in a detach call of that invocation.
C4_ResolveBeforeMutation ==
    (Reconciled /\ res = "resolution") => (DetachReq = {} /\ AttachReq = {})

\* C5: whenever the convergence check has re-fetched a port that still has
\* a group the plan scheduled for removal (and that is not desired), it
\* returns the 'not yet applied' error.
C5_CheckRejectsStaleRemoval ==
    (op = "Update" /\ chk \in {"ok", "notapplied"}
        /\ (port.groups \ cfg.sgs) \cap plan.rm # {})
        => chk = "notapplied"

\* C6: a reconciliation that repeats the desired state of the successful
\* reconciliation right before it (nothing else having happened) computes an
\* empty plan and issues no attach, detach, enable or disable call.
C6_SecondApplyEmptyPlan ==
    (Reconciled /\ repeat /\ res = "ok")
        => /\ plan = NoPlan
           /\ Count("attach") = 0 /\ Count("detach") = 0
           /\ Count("enable") = 0 /\ Count("disable") = 0

\* C7: a reconciliation with disabled=true that runs to success on a port
\* whose security was enabled issues exactly one disable call and no name
\* resolution, attach or detach call.
C7_DisableOnce ==
    (Reconciled /\ cfg.disabled /\ pre.enabled /\ res = "ok")
        => /\ Count("disable") = 1
           /\ Count("resolve") = 0
           /\ Count("attach") = 0 /\ Count("detach") = 0

\* C8: whenever a reconciliation with disabled=true returns success, the
\* port's security is not enabled.
C8_DisabledMeansOff ==
    (Reconciled /\ cfg.disabled /\ res = "ok") => ~port.enabled

\* C9: whenever a reconciliation with disabled=false and enforce=false
\* returns success (and the API has applied what it accepted), every desired
\* group is attached to the port.
C9_DesiredAttached ==
    (Reconciled /\ ~cfg.disabled /\ ~cfg.enforce /\ res = "ok" /\ Applied)
        => cfg.sgs \subseteq port.groups

\* C10: in a reconciliation that reaches the attach step and succeeds, the
\* group IDs requested for attachment are exactly the desired groups that
\* were not attached to the port.
C10_ToAddIsDesiredMinusCurrent ==
    (Reconciled /\ ~cfg.disabled /\ res = "ok")
        => AttachReq = cfg.sgs \ pre.groups

\* the requests that change the port
Mutations == {"enable", "disable", "attach", "detach"}
MutationCalls == {i \in 1..Len(calls) : calls[i].op \in Mutations}

\* C11: in a successful reconciliation with enforce=true and disabled=false
\* the group IDs requested for detachment are exactly the groups attached
\* to the port that are not desired.
C11_ToRemoveIsCurrentMinusDesired ==
    (Reconciled /\ cfg.enforce /\ ~cfg.disabled /\ res = "ok")
        => DetachReq = pre.groups \ cfg.sgs

\* C12: a reconciliation that issued a mutation returns success only after
\* it has re-fetched the port and run the convergence check, and every
\* request before the first mutation is a read or a name resolution.
C12_VerifyAfterMutation ==
    (Reconciled /\ res = "ok" /\ MutationCalls # {})
        => /\ chk = "ok"
           /\ \E i \in CallsOf("getPort") : \A j \in MutationCalls : j < i

\* the number of desired groups found on the port
DesiredOnPort == Cardinality(port.groups \cap cfg.sgs)
\* the convergence check ran and both of its reads succeeded
Checked == op = "Update" /\ chk \in {"ok", "notapplied"}

\* C13: under enforce=true, when the observed flag matches the desired one,
\* the convergence check answers "not yet applied" exactly when the number
\* of desired groups present on the re-fetched port differs from the number
\* of desired groups.
C13_CountMismatch ==
    (Checked /\ cfg.enforce /\ port.enabled # cfg.disabled)
        => (chk = "notapplied" <=> DesiredOnPort # Cardinality(cfg.sgs))

C13_Witness ==
    /\ Checked /\ cfg.enforce /\ port.enabled # cfg.disabled
    /\ chk = "notapplied" /\ res = "notapplied"
    /\ DesiredOnPort < Cardinality(cfg.sgs)
    /\ Count("attach") = 1

\* C14: an Update that gets past its mutations always runs the convergence
\* check, for both desired values of port_security_disabled, and the check
\* answers "not applied" whenever the observed flag is not the inverse of
\* the desired one.
C14_FlagChecked ==
    (op = "Update" /\ res \in {"ok", "notapplied"})
        => /\ chk \in {"ok", "notapplied"}
           /\ (port.enabled = cfg.disabled => chk = "notapplied")

\* C15: every mismatch the convergence check finds is returned as the
\* sentinel, the sentinel is returned for nothing else, and a failed
\* request - the re-fetch of the check included - is returned as its own
\* error, never as the sentinel.
C15_SentinelOnlyForMismatch ==
    /\ (chk = "notapplied") <=> (res = "notapplied")
    /\ (Checked /\ (port.enabled = cfg.disabled
                    \/ (cfg.enforce /\ DesiredOnPort # Cardinality(cfg.sgs))))
          => res = "notapplied"
    /\ res = "notapplied" => failed = 0
    /\ failed # 0 => res \in {"api", "resolution"}
    /\ chk = "api"
          => /\ res = "api" /\ failed = Len(calls)
             /\ calls[failed].op \in {"getPort", "getIface"}

C15_Witness ==
    /\ op = "Update" /\ chk = "api" /\ res = "api"
    /\ MutationCalls # {}
    /\ calls[failed].op = "getPort"

\* C16: when the detach or the attach request fails the reconciliation
\* returns that error at once: the failed request is the last one issued
\* (no attach after a failed detach, no re-fetch, no read-back), the
\* convergence check has not run, the observed groups in the state are
\* untouched and Create has not set the resource ID.
C16_FailFast ==
    (Reconciled /\ failed # 0 /\ calls[failed].op \in {"attach", "detach"})
        => /\ res = "api"
           /\ Len(calls) = failed
           /\ (calls[failed].op = "detach" => Count("attach") = 0)
           /\ chk = "none"
           /\ d.all = was.all
           /\ (op = "Create" => d = was)

C16_Witness ==
    /\ op = "Update" /\ res = "api" /\ failed # 0
    /\ calls[failed].op = "detach"
    /\ cfg.sgs \ was.sgs # {}
    /\ Count("resolve") = 1

\* The port a callback without fault leaves when it starts from port p with
\* resource data old.
CreateFrom(p, old) ==
    resourceInstancePortSecurityCreate(cfg, RunFrom(p), TRUE, old).r.port
UpdateFrom(p, old) ==
    resourceInstancePortSecurityUpdate(cfg, RunFrom(p), TRUE, old).r.port
\* Re-invoking with the same desired state: a Create that failed before it
\* set the ID is run again; after a failed Update the state holds the
\* planned values, so Update is run only if they differ from the desired
\* ones (and it would find no change if it were run).
Reinvoked ==
    IF op = "Create" THEN CreateFrom(port, d)
    ELSE IF cfg # StoredCfg THEN UpdateFrom(port, d)
    ELSE port
Uninterrupted ==
    IF op = "Create" THEN CreateFrom(pre, was) ELSE UpdateFrom(pre, was)

\* C17: after a reconciliation that failed part-way, re-invoking it with
\* the same desired state leaves the port as an uninterrupted run from the
\* original port would have left it.
C17_ResumeReachesSameState ==
    (Reconciled /\ failed # 0 /\ Applied /\ (op = "Create" => d = was))
        => Reinvoked = Uninterrupted

\* the enable and disable requests
Toggles == CallsOf("enable") \cup CallsOf("disable")

\* C18: a reconciliation that gets past the toggle step has issued enable
\* exactly when disabled=false and the port was not enabled, disable
\* exactly when disabled=true and the port was enabled, at most one toggle
\* in all, and the toggle before every attach and detach.
C18_ToggleIffFlagDiffers ==
    (Reconciled /\ res \in {"ok", "notapplied"})
        => /\ (Count("enable") = 1) <=> (~cfg.disabled /\ ~pre.enabled)
           /\ (Count("disable") = 1) <=> (cfg.disabled /\ pre.enabled)
           /\ Cardinality(Toggles) <= 1
           /\ \A i \in Toggles :
                 \A j \in CallsOf("attach") \cup CallsOf("detach") : i < j

\* C19: every reconciliation ends after a bounded number of requests
\* without retrying: at most one enable or disable, at most one detach
\* carrying the names of all the groups to remove, at most one attach
\* carrying the names of all the groups to add, a fixed number of reads,
\* and a mismatch found by the convergence check is returned, with no
\* request after the two reads of the check.
C19_BoundedCalls ==
    Reconciled
        => /\ Cardinality(Toggles) <= 1
           /\ Count("detach") <= 1 /\ Count("attach") <= 1
           /\ Count("resolve") <= 2
           /\ Count("getPort") <= 2 /\ Count("getIface") <= 3
           /\ \A i \in CallsOf("detach") : calls[i].arg = NamesOf(plan.rm)
           /\ \A i \in CallsOf("attach") : calls[i].arg = NamesOf(plan.add)
           /\ chk = "notapplied"
                 => /\ res = "notapplied"
                    /\ Count("getPort") = 1
                    /\ calls[Len(calls)].op = "getIface"
                    /\ calls[Len(calls) - 1].op = "getPort"

C19_Witness ==
    /\ op = "Update" /\ res = "notapplied"
    /\ Cardinality(Toggles) = 1
    /\ Count("detach") = 1 /\ Count("attach") = 1
    /\ plan.rm # {} /\ plan.add # {}

\* The requests and the result of the Update without fault that starts from
\* the same port with the same desired state, had an earlier Read stored
\* the observed groups a in all_security_group_ids.
UpdateWithStored(a) ==
    LET o == resourceInstancePortSecurityUpdate(
                 cfg, RunFrom(pre), TRUE, [was EXCEPT !.all = a])
    IN [calls |-> o.r.calls,
        res |-> IF o.r.err = "none" THEN "ok" ELSE o.r.err]

\* C20: the requests an Update issues and the result it returns depend on
\* its desired state and on the answers of the API only, not on the
\* observed-group list an earlier invocation stored.
C20_NoSharedState ==
    (op = "Update" /\ failed = 0 /\ res # "init" /\ Applied)
        => \A a \in SUBSET IDs :
              UpdateWithStored(a) = [calls |-> calls, res |-> res]

\* the callback got past its attach and detach steps
PastMutations == res \in {"ok", "notapplied"}

\* C21 as stated: under enforce=false an Update that gets past its group
\* steps has requested the detachment of exactly the previous desired set
\* minus the new one, and Create has requested no detachment.
C21_UpdateRemovesOldMinusNew ==
    (Reconciled /\ ~cfg.enforce /\ PastMutations)
        => /\ (op = "Update" => DetachReq = was.sgs \ cfg.sgs)
           /\ (op = "Create" => Count("detach") = 0)

\* C21 amended: the same, for an Update with port_security_disabled=false
\* (an Update with port_security_disabled=true returns before the group
\* steps); Create requests no detachment under enforce=false, whatever it
\* returns.
C21_UpdateRemovesOldMinusNewEnabled ==
    (Reconciled /\ ~cfg.enforce)
        => /\ (op = "Update" /\ ~cfg.disabled /\ PastMutations)
                 => DetachReq = was.sgs \ cfg.sgs
           /\ (op = "Update" /\ cfg.disabled) => Count("detach") = 0
           /\ (op = "Create" => Count("detach") = 0)

C21_Witness ==
    /\ op = "Update" /\ ~cfg.enforce /\ ~cfg.disabled /\ res = "ok"
    /\ DetachReq = was.sgs \ cfg.sgs
    /\ DetachReq # {}
    /\ was.all \ cfg.sgs # DetachReq

\* C22: Delete leaves every group it does not own.  When the port's
\* security is enabled it requests the detachment of exactly the configured
\* security_group_ids, and issues no request at all beyond reading the
\* interface if none are configured; when the port's security is disabled
\* it issues the enable request only, so the configured groups stay.
C22_DeleteOwnGroupsOnly ==
    (op = "Delete" /\ res # "init")
        => /\ pre.groups \ was.sgs \subseteq port.groups
           /\ port.groups \subseteq pre.groups
           /\ Count("attach") = 0 /\ Count("disable") = 0
           /\ (pre.enabled /\ was.sgs = {})
                 => calls = <<[op |-> "getIface", arg |-> {}]>> /\ port = pre
           /\ (pre.enabled /\ was.sgs # {} /\ res = "ok")
                 => /\ Count("detach") = 1 /\ DetachReq = was.sgs
                    /\ Count("enable") = 0
                    /\ Applied => port.groups = pre.groups \ was.sgs
           /\ (~pre.enabled /\ res = "ok")
                 => /\ calls = <<[op |-> "getIface", arg |-> {}],
                                 [op |-> "enable", arg |-> {}]>>
                    /\ port = [enabled |-> TRUE, groups |-> pre.groups]

C22_Witness ==
    /\ op = "Delete" /\ res = "ok" /\ Applied
    /\ pre.enabled
    /\ was.sgs # {} /\ was.sgs \subseteq pre.groups
    /\ port.groups = pre.groups \ was.sgs
    /\ port.groups # {}

\* C23: after every successful Read the stored port_security_disabled is
\* the negation of the port's security-enabled flag and the stored
\* all_security_group_ids is the set of groups attached to the port, also
\* when the port's security is disabled.
C23_ReadMirrorsPort ==
    (op = "Read" /\ res = "ok")
        => /\ d.disabled = ~port.enabled
           /\ d.all = port.groups

\* the request that failed is one of the two reads of the read-back that
\* ends Create (the interface, then the port)
ReadBackFailed ==
    /\ failed # 0 /\ failed = Len(calls)
    /\ \/ calls[failed].op = "getIface" /\ failed > 1
       \/ /\ calls[failed].op = "getPort" /\ failed > 2
          /\ calls[failed - 1].op = "getIface"

\* C24 as stated: a Create of a new resource that returns an error leaves
\* the resource ID unset.
C24_IdOnlyOnSuccess ==
    (op = "Create" /\ ~was.id /\ res # "ok") => ~d.id

\* C24 amended: a Create of a new resource has set the resource ID only
\* when every toggle, resolution, detach and attach it issued succeeded;
\* when it returns an error the ID is set exactly if the failed request is
\* a read of the final read-back, and it is set when Create succeeds.
C24_IdAfterMutations ==
    (op = "Create" /\ ~was.id)
        => /\ d.id => \A i \in MutationCalls \cup CallsOf("resolve") :
                         i # failed
           /\ res = "ok" => d.id
           /\ res # "ok" => (d.id <=> ReadBackFailed)
           /\ ~d.id => d = was

C24_Witness ==
    /\ op = "Create" /\ ~was.id /\ res = "api"
    /\ calls[failed].op = "attach"
    /\ Count("detach") = 1 /\ port # pre
    /\ ~d.id

\* ======================================================== data sources
\* The snapshot and the load-balancer pool data sources: one Read each,
\* run against a listing of the cloud.  A read is one atomic action; its
\* inputs are the configured attributes, the cloud's objects and at most
\* one fault (the region/project lookup fails, or the API request fails).

MaxItems == 3                    \* objects of one kind in the cloud
Names     == {"a", "b"}          \* names of snapshots and pools
Vols      == {"v1", "v2"}        \* volume IDs
Lbs       == {"lb1", "lb2"}      \* load balancer IDs
Listeners == {"l1", "l2"}        \* listener IDs
DsFaults  == {"none", "init", "api"}

SeqsUpTo(S, n) == UNION {[1..k -> S] : k \in 0..n}

\* nothing has been written to the data source's state
NoData == [id |-> 0]
DsOut(reqs, err, data) == [reqs |-> reqs, err |-> err, data |-> data]

\* ------------------------------------------------------------ snapshots
\* The cloud's snapshots in the order the API lists them; the snapshot at
\* position i has ID i.  snapshot_id 0 is the empty string.
SnapshotWorlds == SeqsUpTo([name : Names, vol : Vols], MaxItems)
SnapshotInputs ==
    [snapshot_id : 0..MaxItems, name : {""} \cup Names,
     volume_id : {""} \cup Vols]

SnapshotOf(w, i) == [id |-> i, name |-> w[i].name, vol |-> w[i].vol]

\* Snapshots.List: the snapshots of the volume, or all of them when the
\* option is the empty string.
SnapshotsList(w, opts) ==
    LET all == [i \in 1..Len(w) |-> SnapshotOf(w, i)]
        keep(sn) == opts.VolumeID = "" \/ sn.vol = opts.VolumeID
    IN SelectSeq(all, keep)

setSnapshotData(snapshot) ==
    [id |-> snapshot.id, name |-> snapshot.name,
     volume_id |-> snapshot.vol, snapshot_id |-> snapshot.id]

\* A Read that writes the single match to the state before it compares
\* the volume.
dataSourceSnapshotRead_SetsBeforeVolumeCheck(in, w, fault, perIteration) ==
    LET snapshotID == in.snapshot_id
        volumeID == in.volume_id
        name == in.name
        snapshotsOpts == [VolumeID |-> volumeID]
        allSnapshots == SnapshotsList(w, snapshotsOpts)
        matches(sn) == name = sn.name
        matching == SelectSeq(allSnapshots, matches)
        foundSnapshots ==
            IF perIteration THEN matching
            ELSE [i \in 1..Len(matching) |-> allSnapshots[Len(allSnapshots)]]
        get  == <<[op |-> "get", arg |-> snapshotID]>>
        list == <<[op |-> "list", arg |-> snapshotsOpts]>>
    IN IF fault = "init" THEN DsOut(<<>>, "init", NoData)
       ELSE IF snapshotID # 0
            THEN IF fault = "api" \/ snapshotID \notin 1..Len(w)
                 THEN DsOut(get, "get", NoData)
                 ELSE DsOut(get, "none",
                            setSnapshotData(SnapshotOf(w, snapshotID)))
       ELSE IF name = "" /\ volumeID # ""
            THEN DsOut(<<>>, "nameRequired", NoData)
       ELSE IF fault = "api" THEN DsOut(list, "list", NoData)
       ELSE IF Len(foundSnapshots) = 0 THEN DsOut(list, "notfound", NoData)
       ELSE IF Len(foundSnapshots) > 1 THEN DsOut(list, "multiple", NoData)
       ELSE IF foundSnapshots[1].vol # volumeID
            THEN DsOut(list, "mismatch", setSnapshotData(foundSnapshots[1]))
       ELSE DsOut(list, "none", setSnapshotData(foundSnapshots[1]))

\* dataSourceSnapshotRead.  foundSnapshots holds &snapshot, the address of
\* the loop variable: with one variable per iteration (Go 1.22 and later)
\* each entry is the matching snapshot, with one variable for the whole
\* loop (earlier Go) every entry is the last snapshot of the listing.
dataSourceSnapshotRead(in, w, fault, perIteration) ==
    LET snapshotID == in.snapshot_id
        volumeID == in.volume_id
        name == in.name
        snapshotsOpts == [VolumeID |-> volumeID]
        allSnapshots == SnapshotsList(w, snapshotsOpts)
        matches(sn) == name = sn.name
        matching == SelectSeq(allSnapshots, matches)
        foundSnapshots ==
            IF perIteration THEN matching
            ELSE [i \in 1..Len(matching) |-> allSnapshots[Len(allSnapshots)]]
        get  == <<[op |-> "get", arg |-> snapshotID]>>
        list == <<[op |-> "list", arg |-> snapshotsOpts]>>
    IN IF fault = "init" THEN DsOut(<<>>, "init", NoData)
       ELSE IF snapshotID # 0
            THEN IF fault = "api" \/ snapshotID \notin 1..Len(w)
                 THEN DsOut(get, "get", NoData)
                 ELSE DsOut(get, "none",
                            setSnapshotData(SnapshotOf(w, snapshotID)))
       ELSE IF name = "" /\ volumeID # ""
            THEN DsOut(<<>>, "nameRequired", NoData)
       ELSE IF fault = "api" THEN DsOut(list, "list", NoData)
       ELSE IF Len(foundSnapshots) = 0 THEN DsOut(list, "notfound", NoData)
       ELSE IF Len(foundSnapshots) > 1 THEN DsOut(list, "multiple", NoData)
       ELSE IF foundSnapshots[1].vol # volumeID
            THEN DsOut(list, "mismatch", NoData)
       ELSE DsOut(list, "none", setSnapshotData(foundSnapshots[1]))

\* ----------------------------------------------------------------- pools
\* The cloud's pools in the order the API lists them; the pool at position
\* i has ID i.
PoolWorlds == SeqsUpTo([name : Names, lb : Lbs, listener : Listeners], MaxItems)
PoolInputs ==
    [name : Names, loadbalancer_id : {""} \cup Lbs,
     listener_id : {""} \cup Listeners]

PoolOf(w, i) ==
    [id |-> i, name |-> w[i].name, lb |-> w[i].lb, listener |-> w[i].listener]

\* Loadbalancers.PoolList: an option that is the empty string filters
\* nothing.
PoolList(w, opts) ==
    LET all == [i \in 1..Len(w) |-> PoolOf(w, i)]
        keep(p) == /\ opts.LoadbalancerID = "" \/ p.lb = opts.LoadbalancerID
                   /\ opts.ListenerID = "" \/ p.listener = opts.ListenerID
    IN SelectSeq(all, keep)

\* dataSourceLBPoolRead
dataSourceLBPoolRead(in, w, fault) ==
    LET name == in.name
        lbID == in.loadbalancer_id
        lID  == in.listener_id
        opts == [LoadbalancerID |-> IF lbID # "" THEN lbID ELSE "",
                 ListenerID     |-> IF lbID # "" THEN lID ELSE ""]
        pools == PoolList(w, opts)
        hits  == {i \in 1..Len(pools) : pools[i].name = name}
        found == hits # {}
        lb == pools[CHOOSE i \in hits : \A j \in hits : i <= j]
        list == <<[op |-> "list", arg |-> opts]>>
    IN IF fault = "init" THEN DsOut(<<>>, "init", NoData)
       ELSE IF fault = "api" THEN DsOut(list, "list", NoData)
       ELSE IF ~found THEN DsOut(list, "notfound", NoData)
       ELSE DsOut(list, "none",
                  [id |-> lb.id, name |-> lb.name,
                   loadbalancer_id |-> lb.lb, listener_id |-> lb.listener])

\* --------------------------------------------------------------- actions
DsRecord(kind, in, w, fault, perIteration, o) ==
    [kind |-> kind, in |-> in, world |-> w, fault |-> fault,
     perIteration |-> perIteration,
     reqs |-> o.reqs, err |-> o.err, data |-> o.data]

\* Terraform reads the snapshot data source.
SnapshotRead ==
    /\ ds.kind = "none"
    /\ \E in \in SnapshotInputs, w \in SnapshotWorlds, f \in DsFaults,
          b \in BOOLEAN :
          ds' = DsRecord("snapshot", in, w, f, b,
                         dataSourceSnapshotRead(in, w, f, b))
    /\ UNCHANGED portVars

\* Terraform reads the load-balancer pool data source.
LBPoolRead ==
    /\ ds.kind = "none"
    /\ \E in \in PoolInputs, w \in PoolWorlds, f \in DsFaults :
          ds' = DsRecord("lbpool", in, w, f, TRUE,
                         dataSourceLBPoolRead(in, w, f))
    /\ UNCHANGED portVars

\* The read's diagnostics are handed to Terraform; the next read starts
\* from the configuration again.
DsReturn ==
    /\ ds.kind # "none"
    /\ ds' = [kind |-> "none", err |-> ds.err]
    /\ UNCHANGED portVars

DataInit == Init /\ port = [enabled |-> TRUE, groups |-> {}]
DataNext == SnapshotRead \/ LBPoolRead \/ DsReturn
DataSpec == DataInit /\ [][DataNext]_vars

\* ---------------------------------------------------- claim vocabulary
SnapshotDone == ds.kind = "snapshot"
\* the snapshots the list request of this read returned
Listed == SnapshotsList(ds.world, [VolumeID |-> ds.in.volume_id])
NameMatches == {i \in 1..Len(Listed) : Listed[i].name = ds.in.name}

\* C25: in the snapshot data source, with snapshot_id empty and exactly
\* one listed snapshot of the requested name, Read succeeds and writes the
\* fields of that snapshot, whatever its position in the listing and also
\* when volume_id is not specified.
C25_SingleMatchIsRead ==
    (SnapshotDone /\ ds.fault = "none" /\ ds.in.snapshot_id = 0
       /\ Cardinality(NameMatches) = 1)
        => /\ ds.err = "none"
           /\ \A i \in NameMatches : ds.data = setSnapshotData(Listed[i])

\* C26: in the snapshot data source every failing lookup returns an error
\* and leaves the ID and all fields unset: a failed get by snapshot_id,
\* volume_id without a name (found before any request), no snapshot of the
\* name, several snapshots of the name, a single match of another volume
\* than volume_id; and with a snapshot_id no list request is issued.
C26_FailedLookupSetsNothing ==
    SnapshotDone
        => /\ ds.err # "none" => ds.data = NoData
           /\ (ds.fault # "init" /\ ds.in.snapshot_id # 0)
                 => /\ \A i \in 1..Len(ds.reqs) : ds.reqs[i].op # "list"
                    /\ (ds.fault = "api"
                        \/ ds.in.snapshot_id \notin 1..Len(ds.world))
                          => ds.err = "get"
           /\ (ds.fault # "init" /\ ds.in.snapshot_id = 0
                 /\ ds.in.name = "" /\ ds.in.volume_id # "")
                 => ds.err = "nameRequired" /\ ds.reqs = <<>>
           /\ (ds.fault = "none" /\ ds.in.snapshot_id = 0
                 /\ ~(ds.in.name = "" /\ ds.in.volume_id # ""))
                 => /\ NameMatches = {} => ds.err = "notfound"
                    /\ Cardinality(NameMatches) > 1 => ds.err = "multiple"
                    /\ (Cardinality(NameMatches) = 1
                        /\ \E i \in NameMatches :
                              Listed[i].vol # ds.in.volume_id)
                          => ds.err = "mismatch"

C26_Witness ==
    /\ SnapshotDone /\ ds.fault = "none" /\ ds.in.snapshot_id = 0
    /\ Cardinality(NameMatches) = 1 /\ Len(Listed) > 1
    /\ ds.err = "mismatch"
    /\ ds.data = NoData

\* C27: in the pool data source the list request carries the
\* loadbalancer_id filter whenever loadbalancer_id is not empty and the
\* listener_id filter whenever listener_id is not empty, each on its own;
\* the result is the first listed pool of the requested name, and when no
\* listed pool has the name an error is returned and the ID is not set.
C27_PoolFilters ==
    (ds.kind = "lbpool" /\ ds.fault = "none")
        => LET opts == ds.reqs[1].arg
               pools == PoolList(ds.world, opts)
               hits == {i \in 1..Len(pools) : pools[i].name = ds.in.name}
           IN /\ opts.LoadbalancerID = ds.in.loadbalancer_id
              /\ opts.ListenerID = ds.in.listener_id
              /\ hits = {} => ds.err = "notfound" /\ ds.data = NoData
              /\ hits # {}
                    => /\ ds.err = "none"
                       /\ ds.data.id \in {pools[i].id : i \in hits}
                       /\ \A i \in hits : pools[i].id >= ds.data.id

====
